---- MODULE Spec2Model ----
(***************************************************************************)
(* Model of server.js: the shared Playwright browser (startBrowser,        *)
(* checkBrowserHealth), the request queue (queueTask, processQueue), the   *)
(* two scrape operations with their result cache and expiry timers, and    *)
(* startServer.  Node runs one callback at a time: every action below is   *)
(* one callback run from its start to its next await.  Time is counted in  *)
(* units of 30 minutes (BROWSER_RESTART_INTERVAL).                          *)
(***************************************************************************)
EXTENDS Integers, Sequences, FiniteSets, TLC

\* ---- bounds of the model
MaxTasks == 2      \* tasks submitted in a run
MaxBrowsers == 3   \* successful launches in a run
MaxTime == 3       \* time units in a run
MaxCrashes == 1    \* browsers that die on their own in a run
MaxStrategies == 3 \* selection strategies handed to scrapeSpotifyData
MaxClock == 10     \* latest time of the health check examined on its own

\* ---- program constants (time in units of 30 minutes)
MAX_CONCURRENT_PAGES == 2
CACHE_EXPIRY == 2
BROWSER_MAX_LIFETIME == 8
BROWSER_RESTART_INTERVAL == 1
ID_LENGTH == 22

VARIABLES
  now,                \* Date.now()
  browserInstance,    \* 0 is null, otherwise the browser the handle refers to
  browserLastRestart,
  alive,              \* browser processes launched and still running
  launched,           \* number of browsers launched so far
  closedByStart,      \* browsers closed by startBrowser()
  crashes,            \* number of browsers that died on their own
  requestQueue,       \* sequence of task numbers (indices of submitted)
  isProcessing,
  activePages,
  immediates,         \* pending setImmediate(processQueue) callbacks
  submitted,          \* the tasks queueTask created, in submission order
  pq,                 \* the processQueue invocation that holds the guard
  sb,                 \* the startBrowser() invocation of each caller
  hc,                 \* the checkBrowserHealth invocation
  healthAt,           \* next firing of the setInterval timer, -1 before it is set
  cache,
  timers,             \* pending setTimeout(cache.delete) callbacks, oldest first
  admitted,           \* history: tasks in the order processQueue shifted them
  settles,            \* history: calls of task.resolve and task.reject per task
  lastOp,             \* history: the settlement or the expiry of the step just taken
  selectionStrategies, \* scrapeSpotifyData: what each strategy settles with
  settled,            \* scrapeSpotifyData: the strategies settled so far, in order
  strategyResult,     \* scrapeSpotifyData: the value of the Promise.race
  scrapeData          \* scrapeSpotifyData: position, type, result and outcome

serverVars == <<now, browserInstance, browserLastRestart, alive, launched, closedByStart,
                crashes, requestQueue, isProcessing, activePages, immediates, submitted,
                pq, sb, hc, healthAt, cache, timers, admitted, settles, lastOp>>
strategyVars == <<selectionStrategies, settled, strategyResult, scrapeData>>
vars == <<serverVars, strategyVars>>

\* ---- identifiers, kinds, page texts
Kinds == {"artist", "track"}
IdPool == {"valid", "short", "ctx"}
ArtistIds == {"valid", "short"}   \* the identifiers requests ask listeners for
TrackIds == {"ctx"}               \* the identifiers requests ask play counts for
Alnum == {"a", "Z", "7", "c", "o", "n", "t", "e", "x"}
\* the characters of the words the browser-fault test looks for
WordChars(word) ==
  IF word = "context" THEN <<"c", "o", "n", "t", "e", "x", "t">>
  ELSE IF word = "Browser" THEN <<"B", "r", "o", "w", "s", "e", "r">>
  ELSE <<"b", "r", "o", "w", "s", "e", "r">>
\* "valid" is a7a7...; "ctx" is context777...; "short" has 21 characters
IdChars(id) ==
  IF id = "valid" THEN [i \in 1..ID_LENGTH |-> IF i % 2 = 0 THEN "a" ELSE "7"]
  ELSE IF id = "ctx"
  THEN [i \in 1..ID_LENGTH |-> IF i <= 7 THEN WordChars("context")[i] ELSE "7"]
  ELSE [i \in 1..(ID_LENGTH - 1) |-> "Z"]
\* /^[A-Za-z0-9]{22}$/.test(id)
ValidId(id) == /\ Len(IdChars(id)) = ID_LENGTH
               /\ \A i \in 1..Len(IdChars(id)) : IdChars(id)[i] \in Alnum

Digits == {"0", "1", "2", "3", "4", "5", "6", "7", "8", "9"}
PageTexts == { <<"1", ",", "2", " ", "m">>, <<"3", "4">> }
RECURSIVE StripNonDigits(_)
\* text.replace(/\D/g, "")
StripNonDigits(text) ==
  IF text = <<>> THEN <<>>
  ELSE (IF Head(text) \in Digits THEN <<Head(text)>> ELSE <<>>) \o StripNonDigits(Tail(text))

TypeOf(kind) == IF kind = "artist" THEN "monthly-listeners" ELSE "track-playcount"
\* the characters of the cache key `artist:${artistId}` / `track:${trackId}`
KindChars(kind) ==
  IF kind = "artist" THEN <<"a", "r", "t", "i", "s", "t">>
  ELSE <<"t", "r", "a", "c", "k">>
KeyString(kind, id) == KindChars(kind) \o <<":">> \o IdChars(id)
\* mutant: the key is the identifier alone
KeyIdOnly(kind, id) == <<"artist", id>>
\* the cache key as the pair its string determines
Key(kind, id) == <<kind, id>>
Keys == Kinds \X IdPool
NoEntry == [absent |-> TRUE]
\* the result object a scrape builds from the element's innerText
Result(kind, id, text) ==
  [kind |-> kind, id |-> id,
   value |-> IF kind = "artist" THEN StripNonDigits(text) ELSE text]

\* ---- error messages and the browser-fault test of processQueue's catch
\* A message is the sequence of its words; NoErr is the absence of an error.
NoErr == <<>>
ErrInvalid == <<"Invalid", "artistId", "format">>
ErrNoBrowser == <<"Failed", "to", "start", "browser">>
ErrClosed == <<"Target", "page,", "context", "or", "browser", "has", "been", "closed">>
\* Playwright's navigation error quotes the URL, which ends in the identifier
ErrTimeout(id) == <<"page.goto:", "Timeout", "20000ms", "exceeded", "navigating", "to", id>>
ErrSelectorTimeout == <<"page.waitForSelector:", "Timeout", "20000ms", "exceeded">>
\* w occurs in s as a run of consecutive characters
Within(w, s) ==
  \E k \in 0..(Len(s) - Len(w)) : \A j \in 1..Len(w) : s[k + j] = w[j]
\* message.includes(word): case-sensitive; it finds the word as a word of the
\* message or inside an identifier the message quotes
Includes(msg, word) ==
  \E i \in DOMAIN msg :
    \/ msg[i] = word
    \/ msg[i] \in IdPool /\ Within(WordChars(word), IdChars(msg[i]))

\* mutant: the test ignores case, so "Failed to start browser" counts as a browser fault
IsBrowserFaultAnyCase(msg) ==
  Includes(msg, "Browser") \/ Includes(msg, "browser") \/ Includes(msg, "context")

\* error.message.includes("Browser") || error.message.includes("context")
IsBrowserFault(msg) == Includes(msg, "Browser") \/ Includes(msg, "context")

Callers == {"server", "health", "queue"}
SbIdle == [pc |-> "idle", target |-> 0]
PqIdle == [pc |-> "idle", task |-> 0, execs |-> 0, handle |-> 0, context |-> 0,
           page |-> FALSE, err |-> NoErr, result |-> NoEntry]
HcIdle == [pc |-> "idle", handle |-> 0]

NoOp == [op |-> "none"]
Gone == [type |-> "", kind |-> "", id |-> ""]

\* ---- the state as one record, so that a handler's continuation composes; lastOp
\* describes the step being taken: the task it settled or the entry it expired
St == [now |-> now, browserInstance |-> browserInstance,
       browserLastRestart |-> browserLastRestart, alive |-> alive, launched |-> launched,
       closedByStart |-> closedByStart, crashes |-> crashes, requestQueue |-> requestQueue,
       isProcessing |-> isProcessing, activePages |-> activePages,
       immediates |-> immediates, submitted |-> submitted, pq |-> pq, sb |-> sb, hc |-> hc,
       healthAt |-> healthAt, cache |-> cache, timers |-> timers, admitted |-> admitted,
       settles |-> settles, lastOp |-> NoOp]

Becomes(s) ==
  /\ now' = s.now
  /\ browserInstance' = s.browserInstance
  /\ browserLastRestart' = s.browserLastRestart
  /\ alive' = s.alive
  /\ launched' = s.launched
  /\ closedByStart' = s.closedByStart
  /\ crashes' = s.crashes
  /\ requestQueue' = s.requestQueue
  /\ isProcessing' = s.isProcessing
  /\ activePages' = s.activePages
  /\ immediates' = s.immediates
  /\ submitted' = s.submitted
  /\ pq' = s.pq
  /\ sb' = s.sb
  /\ hc' = s.hc
  /\ healthAt' = s.healthAt
  /\ cache' = s.cache
  /\ timers' = s.timers
  /\ admitted' = s.admitted
  /\ settles' = s.settles
  /\ lastOp' = s.lastOp
  /\ UNCHANGED strategyVars

\* ---- startBrowser(), up to its first await
StartBrowserCall(s, c) ==
  IF s.browserInstance # 0
  THEN [s EXCEPT !.sb[c] = [pc |-> "closing", target |-> s.browserInstance]]
  ELSE [s EXCEPT !.sb[c] = [pc |-> "launching", target |-> 0]]

\* mutant: the slot is released twice (in the catch path and again in finally)
PqFinallyTwice(s) ==
  [s EXCEPT !.activePages = @ - 2, !.isProcessing = FALSE, !.immediates = @ + 1,
            !.pq = PqIdle, !.submitted[s.pq.task] = Gone]

\* mutant: the finally block forgets setImmediate(processQueue)
PqFinallyNoReschedule(s) ==
  [s EXCEPT !.activePages = @ - 1, !.isProcessing = FALSE,
            !.pq = PqIdle, !.submitted[s.pq.task] = Gone]

\* mutant: the finally block releases the slot and leaves isProcessing set
PqFinallyKeepsGuard(s) ==
  [s EXCEPT !.activePages = @ - 1, !.immediates = @ + 1,
            !.pq = PqIdle, !.submitted[s.pq.task] = Gone]

\* mutant: the finally block clears the guard and forgets activePages--
PqFinallyKeepsSlot(s) ==
  [s EXCEPT !.isProcessing = FALSE, !.immediates = @ + 1,
            !.pq = PqIdle, !.submitted[s.pq.task] = Gone]

\* ---- processQueue: the finally block; the task object is dropped with the frame
PqFinally(s) ==
  [s EXCEPT !.activePages = @ - 1, !.isProcessing = FALSE, !.immediates = @ + 1,
            !.pq = PqIdle, !.submitted[s.pq.task] = Gone]

\* mutant: the catch block logs the error and forgets task.reject
PqCatchSilent(s, msg) ==
  LET r == [s EXCEPT !.pq.err = msg]
  IN IF IsBrowserFault(msg)
     THEN StartBrowserCall([r EXCEPT !.pq.pc = "restart"], "queue")
     ELSE PqFinally(r)

\* mutant: a task that failed with a browser fault is pushed back for a retry
PqCatchRequeue(s, msg) ==
  LET r == [s EXCEPT !.settles[s.pq.task] = @ + 1, !.pq.err = msg,
                     !.lastOp = [op |-> "settled", how |-> "reject", task |-> s.pq.task,
                                 err |-> msg, execs |-> s.pq.execs, value |-> NoEntry,
                                 id |-> s.submitted[s.pq.task].id,
                                 context |-> s.pq.context, page |-> s.pq.page,
                                 wrote |-> s.pq.result # NoEntry]]
  IN IF IsBrowserFault(msg)
     THEN StartBrowserCall([r EXCEPT !.pq.pc = "restart",
                                     !.requestQueue = Append(@, s.pq.task)], "queue")
     ELSE PqFinally(r)

\* mutant: the catch block starts the restart without awaiting it
PqCatchRestartDetached(s, msg) ==
  LET r == [s EXCEPT !.settles[s.pq.task] = @ + 1, !.pq.err = msg,
                     !.lastOp = [op |-> "settled", how |-> "reject", task |-> s.pq.task,
                                 err |-> msg, execs |-> s.pq.execs, value |-> NoEntry,
                                 id |-> s.submitted[s.pq.task].id,
                                 context |-> s.pq.context, page |-> s.pq.page,
                                 wrote |-> s.pq.result # NoEntry]]
  IN IF IsBrowserFault(msg)
     THEN StartBrowserCall(PqFinally(r), "queue")
     ELSE PqFinally(r)

\* ---- processQueue: the catch block
PqCatch(s, msg) ==
  LET r == [s EXCEPT !.settles[s.pq.task] = @ + 1, !.pq.err = msg,
                     !.lastOp = [op |-> "settled", how |-> "reject", task |-> s.pq.task,
                                 err |-> msg, execs |-> s.pq.execs, value |-> NoEntry,
                                 id |-> s.submitted[s.pq.task].id,
                                 context |-> s.pq.context, page |-> s.pq.page,
                                 wrote |-> s.pq.result # NoEntry]]
  IN IF IsBrowserFault(msg)
     THEN StartBrowserCall([r EXCEPT !.pq.pc = "restart"], "queue")
     ELSE PqFinally(r)

\* ---- processQueue: task.resolve(result) after execute returned
PqResolve(s) ==
  PqFinally([s EXCEPT !.settles[s.pq.task] = @ + 1,
                      !.lastOp = [op |-> "settled", how |-> "resolve", task |-> s.pq.task,
                                  err |-> NoErr, execs |-> s.pq.execs,
                                  value |-> s.pq.result,
                                  id |-> s.submitted[s.pq.task].id,
                                  context |-> s.pq.context, page |-> s.pq.page,
                                  wrote |-> s.pq.result # NoEntry]])

\* mutant: execute uses the reference taken at admission, before the await of
\* startBrowser() (none when the browser was absent)
InvokeExecuteCachedHandle(s) ==
  LET t == s.pq.task
      e == [s EXCEPT !.pq.execs = @ + 1]
  IN IF ~ValidId(s.submitted[t].id)
     THEN PqCatch(e, ErrInvalid)
     ELSE [e EXCEPT !.pq.pc = "newContext",
                    !.pq.handle = IF s.pq.pc = "ensureBrowser" THEN 0
                                  ELSE s.browserInstance]

\* ---- task.execute(), up to its first await (browserInstance.newContext())
InvokeExecute(s) ==
  LET t == s.pq.task
      e == [s EXCEPT !.pq.execs = @ + 1]
  IN IF ~ValidId(s.submitted[t].id)
     THEN PqCatch(e, ErrInvalid)
     ELSE [e EXCEPT !.pq.pc = "newContext", !.pq.handle = s.browserInstance]

\* ---- what runs when execute's promise settles
ExecuteSettled(s) ==
  IF s.pq.err = NoErr THEN PqResolve(s) ELSE PqCatch(s, s.pq.err)

\* ---- the caller's continuation when its startBrowser() returns
AfterStartBrowser(s, c) ==
  IF c = "server"
  THEN [s EXCEPT !.healthAt = s.now + BROWSER_RESTART_INTERVAL,
                 !.immediates = @ + MAX_CONCURRENT_PAGES]
  ELSE IF c = "health"
  THEN [s EXCEPT !.hc = HcIdle]
  ELSE IF s.pq.pc = "ensureBrowser"
  THEN (IF s.browserInstance = 0 THEN PqCatch(s, ErrNoBrowser) ELSE InvokeExecute(s))
  ELSE PqFinally(s)

ServerInit ==
  /\ now = 0
  /\ browserInstance = 0
  /\ browserLastRestart = 0
  /\ alive = {}
  /\ launched = 0
  /\ closedByStart = {}
  /\ crashes = 0
  /\ requestQueue = <<>>
  /\ isProcessing = FALSE
  /\ activePages = 0
  /\ immediates = 0
  /\ submitted = <<>>
  /\ pq = PqIdle
  /\ sb = [c \in Callers |-> IF c = "server" THEN [pc |-> "launching", target |-> 0]
                                              ELSE SbIdle]
  /\ hc = HcIdle
  /\ healthAt = -1
  /\ cache = [k \in Keys |-> NoEntry]
  /\ timers = <<>>
  /\ admitted = <<>>
  /\ settles = [t \in 1..MaxTasks |-> 0]
  /\ lastOp = NoOp

\* ---- the strategy-based scrape (scrapeSpotifyData).  A strategy settles with an
\* element it found, with null, or by throwing.
NA == <<"N", "/", "A">>
Null == [kind |-> "null", text |-> <<>>]
Pending == [kind |-> "pending", text |-> <<>>]
Outcomes == {[kind |-> "found", text |-> x] : x \in PageTexts}
            \cup {Null, [kind |-> "throw", text |-> <<>>]}
\* p.catch(e => null)
Caught(o) == IF o.kind = "throw" THEN Null ELSE o
SdIdle == [pc |-> "idle", type |-> "", result |-> NA, how |-> ""]

Init ==
  /\ ServerInit
  /\ selectionStrategies = <<>>
  /\ settled = <<>>
  /\ strategyResult = Pending
  /\ scrapeData = SdIdle

\* ---- browserInstance.close() of startBrowser settles (errors are swallowed)
BrowserCloseDone(c) ==
  /\ sb[c].pc = "closing"
  /\ Becomes([St EXCEPT !.alive = @ \ {sb[c].target},
                        !.closedByStart = @ \cup {sb[c].target},
                        !.browserInstance = 0,
                        !.sb[c] = [pc |-> "launching", target |-> 0]])

\* mutant: the catch of startBrowser returns false and leaves browserInstance alone
LaunchSettledKeepsHandle(s, c, ok) ==
  IF ok
  THEN [state |-> [s EXCEPT !.launched = @ + 1, !.alive = @ \cup {s.launched + 1},
                            !.browserInstance = s.launched + 1,
                            !.browserLastRestart = s.now, !.sb[c] = SbIdle],
        returns |-> TRUE]
  ELSE [state |-> [s EXCEPT !.sb[c] = SbIdle], returns |-> FALSE]

\* mutant: startBrowser does not record the time of the launch
LaunchSettledKeepsRestartTime(s, c, ok) ==
  IF ok
  THEN [state |-> [s EXCEPT !.launched = @ + 1, !.alive = @ \cup {s.launched + 1},
                            !.browserInstance = s.launched + 1, !.sb[c] = SbIdle],
        returns |-> TRUE]
  ELSE [state |-> [s EXCEPT !.browserInstance = 0, !.sb[c] = SbIdle],
        returns |-> FALSE]

\* ---- startBrowser from the settling of chromium.launch() to its return: the state
\* it leaves and the value it returns
LaunchSettled(s, c, ok) ==
  IF ok
  THEN [state |-> [s EXCEPT !.launched = @ + 1, !.alive = @ \cup {s.launched + 1},
                            !.browserInstance = s.launched + 1,
                            !.browserLastRestart = s.now, !.sb[c] = SbIdle],
        returns |-> TRUE]
  ELSE [state |-> [s EXCEPT !.browserInstance = 0, !.sb[c] = SbIdle],
        returns |-> FALSE]

\* ---- chromium.launch() of startBrowser settles
LaunchDone(c, ok) ==
  /\ sb[c].pc = "launching"
  /\ ok => launched < MaxBrowsers
  /\ Becomes(AfterStartBrowser(LaunchSettled(St, c, ok).state, c))

\* mutant: the guard does not test isProcessing
CannotAdmitNoGuard(s) ==
  s.requestQueue = <<>> \/ s.activePages >= MAX_CONCURRENT_PAGES

\* ---- processQueue's guard: the early return
CannotAdmit(s) ==
  s.isProcessing \/ s.requestQueue = <<>> \/ s.activePages >= MAX_CONCURRENT_PAGES

\* mutant: requestQueue.pop() instead of shift()
PopTask(q) == [task |-> q[Len(q)], rest |-> SubSeq(q, 1, Len(q) - 1)]

\* ---- requestQueue.shift(): the task taken and the queue left
ShiftTask(q) == [task |-> Head(q), rest |-> Tail(q)]

\* ---- processQueue(), from the setImmediate callback to its first await
ProcessQueueRun(s) ==
  IF CannotAdmit(s) THEN s
  ELSE LET sh == ShiftTask(s.requestQueue)
           a == [s EXCEPT !.isProcessing = TRUE, !.activePages = @ + 1,
                          !.requestQueue = sh.rest,
                          !.admitted = Append(@, sh.task),
                          !.pq = [PqIdle EXCEPT !.task = sh.task]]
       IN IF a.browserInstance = 0
          THEN StartBrowserCall([a EXCEPT !.pq.pc = "ensureBrowser"], "queue")
          ELSE InvokeExecute(a)

processQueue ==
  /\ immediates > 0
  /\ Becomes(ProcessQueueRun([St EXCEPT !.immediates = @ - 1]))

\* mutant: a task submitted while the dispatcher is busy is dropped
QueueTaskDropWhenBusy(s, kind, id) ==
  [s EXCEPT !.submitted = Append(@, [type |-> TypeOf(kind), kind |-> kind, id |-> id]),
            !.requestQueue = IF s.isProcessing THEN @
                             ELSE Append(@, Len(s.submitted) + 1),
            !.immediates = @ + 1]

\* ---- queueTask(type, execute): push and setImmediate(processQueue)
QueueTask(s, kind, id) ==
  [s EXCEPT !.submitted = Append(@, [type |-> TypeOf(kind), kind |-> kind, id |-> id]),
            !.requestQueue = Append(@, Len(s.submitted) + 1),
            !.immediates = @ + 1]

\* ---- the model's bound on submissions
MaySubmit == Len(submitted) < MaxTasks

\* ---- the cache lookup at the head of getMonthlyListeners / getTrackPlaycount
CacheHas(s, kind, id) == s.cache[Key(kind, id)] # NoEntry

\* mutant: the cache lookup is skipped, every request is queued
LookupAlwaysQueue(s, kind, id) == QueueTask(s, kind, id)

\* the state a request leaves: a hit returns at once, a miss queues a task
Lookup(s, kind, id) ==
  IF CacheHas(s, kind, id) THEN s ELSE QueueTask(s, kind, id)

\* what a request that hits returns: cache.get(key)
Served(s, kind, id) == s.cache[Key(kind, id)].result

getMonthlyListeners(artistId) ==
  /\ IF CacheHas(St, "artist", artistId) THEN TRUE ELSE MaySubmit
  /\ Becomes(Lookup(St, "artist", artistId))

getTrackPlaycount(trackId) ==
  /\ IF CacheHas(St, "track", trackId) THEN TRUE ELSE MaySubmit
  /\ Becomes(Lookup(St, "track", trackId))

\* ---- the route handlers: res.json answers 200, the catch answers res.status(500)
RouteStatus(how) == IF how = "resolve" THEN 200 ELSE 500

\* the body of the 500 answer: { error, message: error.message, timestamp }
ErrorBody(err) == [error |-> "Unable to process request.", message |-> err]

\* ---- environment: browser b may die on its own before a call on it settles
MayDie(b) == b \in alive /\ crashes < MaxCrashes
Died(s, b) == [s EXCEPT !.alive = @ \ {b}, !.crashes = @ + 1]
Env(dies, b) == IF dies THEN Died(St, b) ELSE St

\* ---- execute: browserInstance.newContext() settles
NewContextDone(dies) ==
  /\ pq.pc = "newContext"
  /\ dies => MayDie(pq.handle)
  /\ LET s == Env(dies, pq.handle)
     IN IF pq.handle \in s.alive
        THEN Becomes([s EXCEPT !.pq.pc = "newPage", !.pq.context = pq.handle])
        ELSE Becomes(PqCatch(s, ErrClosed))

\* ---- execute: context.newPage() settles
NewPageDone(dies) ==
  /\ pq.pc = "newPage"
  /\ dies => MayDie(pq.context)
  /\ LET s == Env(dies, pq.context)
     IN IF pq.context \in s.alive
        THEN Becomes([s EXCEPT !.pq.pc = "scraping", !.pq.page = TRUE])
        ELSE Becomes([s EXCEPT !.pq.pc = "closeContext", !.pq.err = ErrClosed])

\* mutant: cache.set without the setTimeout that deletes the entry
CacheSetNoTimer(s, kind, id, result) ==
  [s EXCEPT !.cache[Key(kind, id)] = [result |-> result, writtenAt |-> s.now]]

\* ---- cache.set and setTimeout(cache.delete, CACHE_EXPIRY)
CacheSet(s, kind, id, result) ==
  [s EXCEPT !.cache[Key(kind, id)] = [result |-> result, writtenAt |-> s.now],
            !.timers = Append(@, [key |-> Key(kind, id), due |-> s.now + CACHE_EXPIRY])]

\* ---- execute: setupPage, goto, waitForSelector, innerText; then the cache write
ScrapeSucceeds(text) ==
  /\ pq.pc = "scraping"
  /\ pq.context \in alive
  /\ LET tk == submitted[pq.task]
         res == Result(tk.kind, tk.id, text)
     IN Becomes(CacheSet([St EXCEPT !.pq.pc = "closePage", !.pq.result = res,
                                    !.lastOp = [op |-> "written",
                                                key |-> Key(tk.kind, tk.id),
                                                previous |-> cache[Key(tk.kind, tk.id)]]],
                         tk.kind, tk.id, res))

\* mutant: on a failure the finally block starts the close calls without awaiting
\* them, and execute rejects at once
ScrapeFailsClosesDetached(dies) ==
  /\ pq.pc = "scraping"
  /\ dies => MayDie(pq.context)
  /\ LET s == Env(dies, pq.context)
     IN Becomes(PqCatch(s, IF pq.context \in s.alive
                           THEN ErrTimeout(submitted[pq.task].id)
                           ELSE ErrClosed))

\* ---- execute: setupPage or goto throws (a timeout, or the browser is gone)
ScrapeFails(dies) ==
  /\ pq.pc = "scraping"
  /\ dies => MayDie(pq.context)
  /\ LET s == Env(dies, pq.context)
     IN Becomes([s EXCEPT !.pq.pc = "closePage",
                          !.pq.err = IF pq.context \in s.alive
                                     THEN ErrTimeout(submitted[pq.task].id)
                                     ELSE ErrClosed])

\* mutant: the cache is written before the selector wait, which then times out
SelectorTimesOutAfterWrite ==
  /\ pq.pc = "scraping"
  /\ pq.context \in alive
  /\ LET tk == submitted[pq.task]
         res == Result(tk.kind, tk.id, NA)
     IN Becomes(CacheSet([St EXCEPT !.pq.pc = "closePage", !.pq.result = res,
                                    !.pq.err = ErrSelectorTimeout],
                         tk.kind, tk.id, res))

\* ---- execute: the page loaded, and waitForSelector finds no element within its
\* timeout and throws
SelectorTimesOut ==
  /\ pq.pc = "scraping"
  /\ pq.context \in alive
  /\ Becomes([St EXCEPT !.pq.pc = "closePage", !.pq.err = ErrSelectorTimeout])

\* mutant: the finally block closes the page and forgets the context
PageCloseDoneSkipsContext ==
  /\ pq.pc = "closePage"
  /\ Becomes(ExecuteSettled([St EXCEPT !.pq.page = FALSE]))

\* ---- execute's finally: page.close() settles, then context.close() is called
PageCloseDone ==
  /\ pq.pc = "closePage"
  /\ Becomes([St EXCEPT !.pq.pc = "closeContext", !.pq.page = FALSE])

\* ---- execute's finally: context.close() settles; execute settles
ContextCloseDone ==
  /\ pq.pc = "closeContext"
  /\ Becomes(ExecuteSettled([St EXCEPT !.pq.context = 0]))

\* mutant: the probe takes a concurrency slot for its context
CheckBrowserHealthCountsProbe(s) ==
  IF s.now - s.browserLastRestart > BROWSER_MAX_LIFETIME \/ s.browserInstance = 0
  THEN StartBrowserCall([s EXCEPT !.hc = [pc |-> "restart", handle |-> 0]], "health")
  ELSE [s EXCEPT !.hc = [pc |-> "probe", handle |-> s.browserInstance],
                 !.activePages = @ + 1]

\* mutant: the age of the browser is not tested
CheckBrowserHealthIgnoresAge(s) ==
  IF s.browserInstance = 0
  THEN StartBrowserCall([s EXCEPT !.hc = [pc |-> "restart", handle |-> 0]], "health")
  ELSE [s EXCEPT !.hc = [pc |-> "probe", handle |-> s.browserInstance]]

\* ---- checkBrowserHealth(), from the setInterval callback to its first await
CheckBrowserHealthRun(s) ==
  IF s.now - s.browserLastRestart > BROWSER_MAX_LIFETIME \/ s.browserInstance = 0
  THEN StartBrowserCall([s EXCEPT !.hc = [pc |-> "restart", handle |-> 0]], "health")
  ELSE [s EXCEPT !.hc = [pc |-> "probe", handle |-> s.browserInstance]]

checkBrowserHealth ==
  /\ healthAt # -1
  /\ healthAt <= now
  /\ hc.pc = "idle"
  /\ Becomes(CheckBrowserHealthRun(
       [St EXCEPT !.healthAt = @ + BROWSER_RESTART_INTERVAL]))

\* mutant: the catch of the probe swallows the error and does not restart
ProbeDoneNoRestart(dies) ==
  /\ hc.pc = "probe"
  /\ dies => MayDie(hc.handle)
  /\ LET s == Env(dies, hc.handle)
     IN IF hc.handle \in s.alive
        THEN Becomes([s EXCEPT !.hc.pc = "probeClose"])
        ELSE Becomes([s EXCEPT !.hc = HcIdle])

\* ---- the probe's newContext() settles
ProbeDone(dies) ==
  /\ hc.pc = "probe"
  /\ dies => MayDie(hc.handle)
  /\ LET s == Env(dies, hc.handle)
     IN IF hc.handle \in s.alive
        THEN Becomes([s EXCEPT !.hc.pc = "probeClose"])
        ELSE Becomes(StartBrowserCall([s EXCEPT !.hc.pc = "restart"], "health"))

\* ---- the probe's context.close() settles
ProbeCloseDone(dies) ==
  /\ hc.pc = "probeClose"
  /\ dies => MayDie(hc.handle)
  /\ LET s == Env(dies, hc.handle)
     IN IF hc.handle \in s.alive
        THEN Becomes([s EXCEPT !.hc = HcIdle])
        ELSE Becomes(StartBrowserCall([s EXCEPT !.hc.pc = "restart"], "health"))

\* ---- a cache expiry timer fires
CacheTimerFire ==
  /\ timers # <<>>
  /\ Head(timers).due <= now
  /\ Becomes([St EXCEPT !.cache[Head(timers).key] = NoEntry, !.timers = Tail(@),
                        !.lastOp = [op |-> "expired", key |-> Head(timers).key,
                                    due |-> Head(timers).due,
                                    entry |-> cache[Head(timers).key]]])

\* ---- no callback is pending and no await is outstanding
Quiescent ==
  /\ immediates = 0
  /\ pq.pc = "idle"
  /\ hc.pc = "idle"
  /\ \A c \in Callers : sb[c].pc = "idle"

\* ---- environment: one time unit (30 minutes) passes.  Due timers fire first, and
\* every outstanding await (bounded by Playwright's 20 s and 30 s timeouts) and
\* every setImmediate callback has settled long before
Tick ==
  /\ now < MaxTime
  /\ Quiescent
  /\ IF timers = <<>> THEN TRUE ELSE Head(timers).due > now
  /\ IF healthAt = -1 THEN TRUE ELSE healthAt > now
  /\ Becomes([St EXCEPT !.now = @ + 1])

\* ---- environment: a time unit passes while a task's page.close() is outstanding
\* (page.close() takes no timeout), the rest of the server being at rest
TickBusy ==
  /\ now < MaxTime
  /\ pq.pc = "closePage"
  /\ immediates = 0
  /\ hc.pc = "idle"
  /\ \A c \in Callers : sb[c].pc = "idle"
  /\ IF timers = <<>> THEN TRUE ELSE Head(timers).due > now
  /\ IF healthAt = -1 THEN TRUE ELSE healthAt > now
  /\ Becomes([St EXCEPT !.now = @ + 1])

\* ---- the steps of one startBrowser() call and of one task's execute
StartBrowserStep ==
  \/ \E c \in Callers : BrowserCloseDone(c)
  \/ \E c \in Callers, ok \in BOOLEAN : LaunchDone(c, ok)

ExecuteStep ==
  \/ \E dies \in BOOLEAN : NewContextDone(dies)
  \/ \E dies \in BOOLEAN : NewPageDone(dies)
  \/ \E text \in PageTexts : ScrapeSucceeds(text)
  \/ \E dies \in BOOLEAN : ScrapeFails(dies)
  \/ SelectorTimesOut
  \/ PageCloseDone
  \/ ContextCloseDone

Next ==
  \/ StartBrowserStep
  \/ processQueue
  \/ \E id \in ArtistIds : getMonthlyListeners(id)
  \/ \E id \in TrackIds : getTrackPlaycount(id)
  \/ ExecuteStep
  \/ checkBrowserHealth
  \/ \E dies \in BOOLEAN : ProbeDone(dies)
  \/ \E dies \in BOOLEAN : ProbeCloseDone(dies)
  \/ CacheTimerFire
  \/ Tick
  \/ TickBusy

Spec == Init /\ [][Next]_vars

\* ---- the dispatcher on its own: requests, processQueue, the tasks' executes and
\* the startBrowser() calls of startServer and processQueue, within one time unit
QueueNext ==
  \/ StartBrowserStep
  \/ processQueue
  \/ \E id \in ArtistIds : getMonthlyListeners(id)
  \/ \E id \in TrackIds : getTrackPlaycount(id)
  \/ ExecuteStep

\* Every pending setImmediate callback runs, every chromium.launch / browser.close
\* settles, and every await of a task's execute settles (Playwright's timeouts).
FairSpec ==
  /\ Init
  /\ [][QueueNext]_vars
  /\ WF_vars(processQueue)
  /\ WF_vars(StartBrowserStep)
  /\ WF_vars(ExecuteStep)

\* ---- scrapeSpotifyData: the execute function has navigated, set result to its
\* default "N/A" and started every strategy
StrategyInit ==
  /\ ServerInit
  /\ \E n \in 1..MaxStrategies : selectionStrategies \in [1..n -> Outcomes]
  /\ settled = <<>>
  /\ strategyResult = Pending
  /\ \E k \in Kinds : scrapeData = [pc |-> "racing", type |-> k, result |-> NA, how |-> ""]

\* ---- Promise.race: it resolves with the value of the promise that settles first
Race(current, value) == IF current = Pending THEN value ELSE current

\* ---- strategy i settles
StrategySettles(i) ==
  /\ scrapeData.pc # "idle"
  /\ i \in DOMAIN selectionStrategies
  /\ \A j \in DOMAIN settled : settled[j] # i
  /\ settled' = Append(settled, i)
  /\ strategyResult' = Race(strategyResult, Caught(selectionStrategies[i]))
  /\ UNCHANGED <<serverVars, selectionStrategies, scrapeData>>

\* ---- after the race: a truthy strategyResult gives the element to read; otherwise
\* "All strategies returned null" is thrown, caught and logged, and result, still
\* the default, is cached and returned
AfterRace(sd, sr) ==
  IF sr.kind = "found" THEN [sd EXCEPT !.pc = "reading"]
  ELSE [sd EXCEPT !.pc = "done", !.how = "resolve"]

RaceAwaited ==
  /\ scrapeData.pc = "racing"
  /\ strategyResult # Pending
  /\ scrapeData' = AfterRace(scrapeData, strategyResult)
  /\ UNCHANGED <<serverVars, selectionStrategies, settled, strategyResult>>

\* processText(result, text)
ProcessText(type, text) == IF type = "artist" THEN StripNonDigits(text) ELSE text

\* ---- element.innerText() settles; then processText, cache.set and return result
InnerTextDone(ok) ==
  /\ scrapeData.pc = "reading"
  /\ scrapeData' = IF ok
                   THEN [scrapeData EXCEPT !.pc = "done", !.how = "resolve",
                           !.result = ProcessText(scrapeData.type, strategyResult.text)]
                   ELSE [scrapeData EXCEPT !.pc = "done", !.how = "reject"]
  /\ UNCHANGED <<serverVars, selectionStrategies, settled, strategyResult>>

StrategyNext ==
  \/ \E i \in 1..MaxStrategies : StrategySettles(i)
  \/ RaceAwaited
  \/ \E ok \in BOOLEAN : InnerTextDone(ok)

StrategySpec == StrategyInit /\ [][StrategyNext]_vars

\* ---- the health check on its own: the interval timer fires at any time up to
\* MaxClock on an idle server whose browser was never launched, is running since
\* browserLastRestart, or was closed by a restart whose launch failed
HealthInit ==
  /\ now \in 0..MaxClock
  /\ \E cfg \in {"never", "running", "failed"} :
       /\ browserInstance = IF cfg = "running" THEN 1 ELSE 0
       /\ launched = IF cfg = "never" THEN 0 ELSE 1
       /\ alive = IF cfg = "running" THEN {1} ELSE {}
       /\ closedByStart = IF cfg = "failed" THEN {1} ELSE {}
       /\ browserLastRestart \in IF cfg = "never" THEN {0} ELSE 0..now
  /\ crashes = 0
  /\ requestQueue = <<>>
  /\ isProcessing = FALSE
  /\ activePages = 0
  /\ immediates = 0
  /\ submitted = <<>>
  /\ pq = PqIdle
  /\ sb = [c \in Callers |-> SbIdle]
  /\ hc = HcIdle
  /\ healthAt = now
  /\ cache = [k \in Keys |-> NoEntry]
  /\ timers = <<>>
  /\ admitted = <<>>
  /\ settles = [t \in 1..MaxTasks |-> 0]
  /\ lastOp = NoOp
  /\ selectionStrategies = <<>>
  /\ settled = <<>>
  /\ strategyResult = Pending
  /\ scrapeData = SdIdle

HealthNext ==
  \/ checkBrowserHealth
  \/ \E dies \in BOOLEAN : ProbeDone(dies)
  \/ \E dies \in BOOLEAN : ProbeCloseDone(dies)
  \/ StartBrowserStep

HealthSpec == HealthInit /\ [][HealthNext]_vars

\* ---- the cache under requests of both kinds for the same identifiers, within
\* one time unit
SharedIds == {"valid", "short"}
CacheNext ==
  \/ StartBrowserStep
  \/ processQueue
  \/ \E id \in SharedIds : getMonthlyListeners(id)
  \/ \E id \in SharedIds : getTrackPlaycount(id)
  \/ ExecuteStep

CacheSpec == Init /\ [][CacheNext]_vars

\* ---- processQueue with any execute function: what execute may throw.  A thrown
\* value either carries a message (an Error) or has no message property (a string,
\* a plain object, undefined)
ThrownValues ==
  {[hasMessage |-> TRUE, message |-> ErrClosed],
   [hasMessage |-> TRUE, message |-> ErrSelectorTimeout],
   [hasMessage |-> FALSE, message |-> <<>>]}

\* what error.message reads on a value without the property
NoMessage == <<"undefined">>

\* mutant: the catch block reads error.message unguarded before task.reject
PqCatchThrownUnguarded(s, v) ==
  IF v.hasMessage
  THEN PqCatch(s, v.message)
  ELSE PqFinally([s EXCEPT !.pq.err = NoMessage])

\* ---- processQueue: the catch block on any thrown value.  The log line guards its
\* read of the message, task.reject(error) follows, and the unguarded
\* error.message.includes(...) then throws a TypeError out of the catch block;
\* the finally block runs and the call's promise rejects unobserved
PqCatchThrown(s, v) ==
  IF v.hasMessage
  THEN PqCatch(s, v.message)
  ELSE PqFinally([s EXCEPT !.settles[s.pq.task] = @ + 1, !.pq.err = NoMessage,
                           !.lastOp = [op |-> "settled", how |-> "reject",
                                       task |-> s.pq.task, err |-> NoMessage,
                                       execs |-> s.pq.execs, value |-> NoEntry,
                                       id |-> s.submitted[s.pq.task].id,
                                       context |-> s.pq.context, page |-> s.pq.page,
                                       wrote |-> s.pq.result # NoEntry]])

\* ---- await task.execute() rejects with v (execute threw at its first await)
ExecuteThrows(v) ==
  /\ pq.pc = "newContext"
  /\ Becomes(PqCatchThrown(St, v))

ThrowNext ==
  \/ QueueNext
  \/ \E v \in ThrownValues : ExecuteThrows(v)

ThrowSpec == Init /\ [][ThrowNext]_vars

\* ---- the server when every chromium.launch succeeds
LaunchSucceeds == \E c \in Callers : LaunchDone(c, TRUE)
CloseSettles == \E c \in Callers : BrowserCloseDone(c)
HealthStep ==
  \/ checkBrowserHealth
  \/ \E dies \in BOOLEAN : ProbeDone(dies)
  \/ \E dies \in BOOLEAN : ProbeCloseDone(dies)

RecoveryNext ==
  \/ LaunchSucceeds
  \/ CloseSettles
  \/ processQueue
  \/ getMonthlyListeners("valid")
  \/ ExecuteStep
  \/ HealthStep
  \/ CacheTimerFire
  \/ Tick

\* Launches succeed, callbacks run, awaits settle, timers fire and time advances, so
\* the setInterval health check keeps firing.
RecoverySpec ==
  /\ Init
  /\ [][RecoveryNext]_vars
  /\ WF_vars(LaunchSucceeds)
  /\ WF_vars(CloseSettles)
  /\ WF_vars(processQueue)
  /\ WF_vars(ExecuteStep)
  /\ WF_vars(HealthStep)
  /\ WF_vars(CacheTimerFire)
  /\ WF_vars(Tick)

\* ---- the server over a browser's whole lifetime: launches succeed and the
\* setInterval health check runs in every time unit, up to MaxClock
TickLong ==
  /\ now < MaxClock
  /\ Quiescent
  /\ IF timers = <<>> THEN TRUE ELSE Head(timers).due > now
  /\ IF healthAt = -1 THEN TRUE ELSE healthAt > now
  /\ Becomes([St EXCEPT !.now = @ + 1])

LifetimeNext ==
  \/ LaunchSucceeds
  \/ CloseSettles
  \/ processQueue
  \/ getMonthlyListeners("valid")
  \/ ExecuteStep
  \/ HealthStep
  \/ CacheTimerFire
  \/ TickLong

LifetimeSpec == Init /\ [][LifetimeNext]_vars

(***************************************************************************)
(* Claims                                                                  *)
(***************************************************************************)
Tasks == 1..MaxTasks
Admitted(t) == \E i \in DOMAIN admitted : admitted[i] = t
Executing == pq.pc \in {"newContext", "newPage", "scraping", "closePage", "closeContext"}
TaskKey(t) == Key(submitted[t].kind, submitted[t].id)

\* C1: in every reachable state activePages is at least 0 and at most
\* MAX_CONCURRENT_PAGES, whatever the interleaving of submissions, dispatcher
\* callbacks, task completions and health checks.
C1_ActivePagesBounded == activePages >= 0 /\ activePages <= MAX_CONCURRENT_PAGES

\* C1 witness: a task holds a slot while another waits and a health check runs.
C1_Witness ==
  /\ activePages = 1
  /\ pq.pc = "scraping"
  /\ requestQueue # <<>>
  /\ hc.pc = "probe"

\* C2 (as claimed): every browser that was launched and is still running is the
\* one browserInstance refers to, so at most one exists.
C2_OneBrowser == \A b \in alive : b = browserInstance

\* C3 (as claimed): while a task holds a context, the browser of that context has
\* not been closed by startBrowser() and is still the handle.
C3_ContextOnCurrentBrowser ==
  pq.context # 0 => (pq.context \notin closedByStart /\ browserInstance = pq.context)

\* C4: tasks are dequeued in submission order: the i-th task processQueue shifts
\* is the i-th task queueTask pushed.
C4_FifoAdmission == \A i \in DOMAIN admitted : admitted[i] = i

\* C4 witness: the first task was settled and the second, pushed after it, is running.
C4_Witness ==
  /\ admitted = <<1, 2>>
  /\ settles[1] = 1
  /\ pq.task = 2
  /\ pq.pc = "scraping"

\* C5: every task queueTask pushed is eventually dequeued and its promise settled,
\* provided callbacks run and awaits settle (FairSpec).
C5_NoStarvation ==
  \A t \in Tasks : (Len(submitted) >= t) ~> (Admitted(t) /\ settles[t] = 1)

\* C5 witness: a task waits behind the guard with no dispatcher callback pending.
C5_Witness ==
  /\ isProcessing
  /\ requestQueue # <<>>
  /\ immediates = 0
  /\ Executing

\* C6: exactly one of task.resolve / task.reject is called, once, for every task:
\* none before the task's execute or browser start has finished, one from then on.
C6_SettledExactlyOnce ==
  \A t \in Tasks :
    /\ settles[t] <= 1
    /\ ~Admitted(t) => settles[t] = 0
    /\ (pq.task = t /\ pq.pc # "restart") => settles[t] = 0
    /\ (pq.task = t /\ pq.pc = "restart") => settles[t] = 1
    /\ (Admitted(t) /\ pq.task # t) => settles[t] = 1

\* C6 witness: one task was settled, the next has just been rejected because the
\* browser could not be started.
C6_Witness ==
  /\ lastOp.op = "settled"
  /\ lastOp.err = ErrNoBrowser
  /\ lastOp.task = 2
  /\ settles[1] = 1
  /\ settles[2] = 1

\* C7 (as claimed): the dispatcher fills the free slots, so MAX_CONCURRENT_PAGES
\* executes get in flight: once the pending dispatcher callbacks have run, no task
\* waits while one task executes on a live browser and a slot is free.
C7_SlotsFilled ==
  ~ /\ Executing
    /\ pq.context \in alive
    /\ browserInstance \in alive
    /\ requestQueue # <<>>
    /\ immediates = 0
    /\ activePages < MAX_CONCURRENT_PAGES

\* C8 (as claimed): within one TTL window the scrape for a key runs once: no
\* execute is in flight for a key whose entry is already in the cache.
C8_ScrapedOncePerKey ==
  (Executing /\ pq.result = NoEntry /\ pq.err = NoErr) =>
     cache[TaskKey(pq.task)] = NoEntry

\* C9: a request whose key is in the cache returns the cached value and leaves
\* requestQueue, activePages, the pending callbacks and the tasks as they are, in
\* every state of the queue and of the browser.
C9_HitBypassesQueue ==
  \A kind \in Kinds, id \in IdPool :
    CacheHas(St, kind, id) =>
      /\ Lookup(St, kind, id).requestQueue = requestQueue
      /\ Lookup(St, kind, id).activePages = activePages
      /\ Lookup(St, kind, id).immediates = immediates
      /\ Lookup(St, kind, id).submitted = submitted
      /\ Served(St, kind, id) = cache[Key(kind, id)].result

\* C9 witness: the key is cached while a task runs and another waits.
C9_Witness ==
  /\ CacheHas(St, "artist", "valid")
  /\ activePages = 1
  /\ requestQueue # <<>>

\* C10: an entry written at time t is not in the cache later than t + CACHE_EXPIRY,
\* the expiry timer leaves no entry under its key, a request for a key without
\* entry is pushed onto requestQueue as a task for that key, and the dispatcher
\* that admits such a task with a browser handle present calls its execute.
C10_TtlExpiry ==
  /\ \A k \in Keys : cache[k] # NoEntry => now <= cache[k].writtenAt + CACHE_EXPIRY
  /\ lastOp.op = "expired" => cache[lastOp.key] = NoEntry
  /\ \A kind \in Kinds, id \in IdPool :
       (~CacheHas(St, kind, id) /\ MaySubmit) =>
         LET s == Lookup(St, kind, id)
         IN /\ Len(s.requestQueue) = Len(requestQueue) + 1
            /\ s.submitted[s.requestQueue[Len(s.requestQueue)]].kind = kind
            /\ s.submitted[s.requestQueue[Len(s.requestQueue)]].id = id
  /\ (~CannotAdmit(St) /\ browserInstance # 0
        /\ ValidId(submitted[Head(requestQueue)].id)) =>
       /\ ProcessQueueRun(St).pq.task = Head(requestQueue)
       /\ ProcessQueueRun(St).pq.execs = 1

\* C10 witness: the timer has just removed an entry written CACHE_EXPIRY ago, and
\* time moves on.
C10_Witness ==
  /\ lastOp.op = "expired"
  /\ lastOp.entry # NoEntry
  /\ lastOp.entry.writtenAt + CACHE_EXPIRY = now
  /\ now < MaxTime

\* C11 (as claimed): the entry an expiry timer deletes was written exactly
\* CACHE_EXPIRY before, also when an earlier write of the key left a timer pending:
\* no entry is deleted before its full time to live has passed.
C11_AbsoluteTtl ==
  (lastOp.op = "expired" /\ lastOp.entry # NoEntry) =>
     lastOp.entry.writtenAt + CACHE_EXPIRY = lastOp.due

\* C12 (as claimed): a request with a malformed identifier is rejected before
\* queueing: no task with a malformed identifier is in requestQueue, and none is
\* the task processQueue holds a slot for or starts the browser for.
C12_MalformedNotQueued ==
  /\ \A i \in DOMAIN requestQueue : ValidId(submitted[requestQueue[i]].id)
  /\ pq.task # 0 => ValidId(submitted[pq.task].id)

\* C13 (as claimed): a request with a malformed identifier is rejected with the
\* invalid-identifier error, and no context or page is created for it, in every
\* state of the queue and of the browser.
C13_MalformedRejectedInvalid ==
  /\ (pq.task # 0 /\ ~ValidId(submitted[pq.task].id)) => (pq.context = 0 /\ ~pq.page)
  /\ (lastOp.op = "settled" /\ ~ValidId(lastOp.id)) =>
        /\ lastOp.how = "reject"
        /\ lastOp.err = ErrInvalid
        /\ lastOp.context = 0

\* C14 (as claimed): the HTTP answer to a request with a malformed identifier has
\* a 400-class status.
C14_MalformedGets400 ==
  (lastOp.op = "settled" /\ ~ValidId(lastOp.id)) =>
     (RouteStatus(lastOp.how) >= 400 /\ RouteStatus(lastOp.how) <= 499)

\* C15: on every exit path of a task's execute the page and the context it
\* acquired are closed, once each: page.close() is called on the open page and
\* context.close() on the open context, in that order, a task that acquired
\* nothing closes nothing, and nothing is open when the task is settled.
C15_ReleasedOnEveryPath ==
  /\ pq.pc = "closePage" => (pq.page /\ pq.context # 0)
  /\ pq.pc = "closeContext" => (~pq.page /\ pq.context # 0)
  /\ pq.pc \in {"idle", "ensureBrowser", "newContext", "restart"} =>
        (~pq.page /\ pq.context = 0)
  /\ lastOp.op = "settled" => (~lastOp.page /\ lastOp.context = 0)

\* C15 witness: a task whose scrape timed out has been rejected, after a first
\* task that was settled too.
C15_Witness ==
  /\ lastOp.op = "settled"
  /\ lastOp.err = ErrTimeout("valid")
  /\ lastOp.execs = 1
  /\ lastOp.task = 2
  /\ lastOp.context = 0

\* C16: a task admitted with the handle absent gets one startBrowser() call, made
\* before its execute; when that call leaves the handle absent the task is
\* rejected with "Failed to start browser", its execute has not run, and no
\* startBrowser() call follows the rejection.
C16_OneStartAttempt ==
  /\ pq.pc = "ensureBrowser" => (pq.execs = 0 /\ sb["queue"].pc # "idle")
  /\ (lastOp.op = "settled" /\ lastOp.execs = 0) =>
        /\ lastOp.how = "reject"
        /\ lastOp.err = ErrNoBrowser
        /\ browserInstance = 0
  /\ (lastOp.op = "settled" /\ lastOp.err = ErrNoBrowser) =>
        /\ lastOp.execs = 0
        /\ pq.pc = "idle"
        /\ sb["queue"].pc = "idle"

\* C17: when the browser browserInstance refers to has died, the handle eventually
\* refers to a live browser launched after it, provided launches succeed and the
\* health check keeps firing (RecoverySpec); the restarts that follow one death
\* take at most two launches.
C17_Recovery ==
  (browserInstance # 0 /\ browserInstance \notin alive /\ launched + 2 <= MaxBrowsers)
     ~> (browserInstance \in alive)

\* C17 witness: the handle refers to a dead browser, found dead by the probe of the
\* health check, and no task is there to restart it.
C17_Witness ==
  /\ browserInstance # 0
  /\ browserInstance \notin alive
  /\ launched + 2 <= MaxBrowsers
  /\ hc.pc = "restart"
  /\ pq.pc = "idle"
  /\ requestQueue = <<>>

\* C18 (as claimed): no task is rejected because the browser was closed under it:
\* neither the task in flight when the browser dies nor the next one admitted.
C18_NoRejectForDeadBrowser ==
  ~(lastOp.op = "settled" /\ lastOp.how = "reject" /\ lastOp.err = ErrClosed)

C20_NotFoundResolvesNA ==
  ~(lastOp.op = "settled" /\ lastOp.how = "reject" /\ lastOp.err = ErrSelectorTimeout)

\* C21 (as claimed): the body of the 500 answer does not depend on the text of the
\* error: a request rejected with one error gets the body a request rejected with
\* any other error would get.
UpstreamErrors ==
  {ErrInvalid, ErrNoBrowser, ErrClosed, ErrSelectorTimeout}
    \cup {ErrTimeout(id) : id \in IdPool}
C21_GenericErrorBody ==
  (lastOp.op = "settled" /\ lastOp.how = "reject") =>
     \A e \in UpstreamErrors : ErrorBody(lastOp.err) = ErrorBody(e)

\* C23 (as claimed): a task rejected for a navigation failure on a live browser is
\* followed by no startBrowser() call, whatever its valid identifier: processQueue
\* is done with the task and the queue's startBrowser() is not running.
C23_NavFailureLeavesBrowser ==
  (/\ lastOp.op = "settled"
   /\ ValidId(lastOp.id)
   /\ lastOp.err = ErrTimeout(lastOp.id))
    => (pq.pc = "idle" /\ sb["queue"].pc = "idle")

\* C22: a task rejected with a browser-fault error is followed by a startBrowser()
\* call that processQueue awaits with the guard still set: until the restart has
\* returned, a dispatcher callback returns at the guard and dequeues nothing.
C22_RestartBeforeNextTask ==
  /\ (lastOp.op = "settled" /\ IsBrowserFault(lastOp.err)) =>
        (pq.pc = "restart" /\ sb["queue"].pc # "idle")
  /\ pq.pc = "restart" =>
        /\ isProcessing
        /\ sb["queue"].pc # "idle"
        /\ CannotAdmit(St)
        /\ ProcessQueueRun(St).requestQueue = requestQueue
        /\ ProcessQueueRun(St).admitted = admitted

\* C22 witness: the restart is launching while a task waits and a dispatcher
\* callback is pending.
C22_Witness ==
  /\ pq.pc = "restart"
  /\ sb["queue"].pc = "launching"
  /\ requestQueue # <<>>
  /\ immediates > 0

\* C24 (as claimed): cache.set is never executed for a key that has a live entry.
C24_NoOverwrite == lastOp.op = "written" => lastOp.previous = NoEntry

\* C25: only a task whose scrape completed writes the cache: the write is the last
\* step of a scrape that did not throw, a task with an error has written nothing,
\* a rejected task has written nothing and a resolved task has written its result.
C25_WriteOnlyOnSuccess ==
  /\ pq.err # NoErr => pq.result = NoEntry
  /\ lastOp.op = "written" =>
        /\ pq.err = NoErr
        /\ pq.pc = "closePage"
        /\ cache[lastOp.key].result = pq.result
        /\ timers # <<>>
        /\ timers[Len(timers)] = [key |-> lastOp.key, due |-> now + CACHE_EXPIRY]
  /\ lastOp.op = "settled" => (lastOp.wrote <=> lastOp.how = "resolve")

\* C25 witness: a task was rejected for a selector timeout; the cache is empty and
\* no timer is pending.
C25_Witness ==
  /\ lastOp.op = "settled"
  /\ lastOp.err = ErrSelectorTimeout
  /\ \A k \in Keys : cache[k] = NoEntry
  /\ timers = <<>>

\* C26: a startBrowser() call whose launch settles returns a boolean: true with
\* browserInstance on the browser just launched, alive, and browserLastRestart at
\* the launch time; false with browserInstance null, whatever another call made
\* of the handle meanwhile.
C26_StartBrowserResult ==
  \A c \in Callers :
    sb[c].pc = "launching" =>
      \A ok \in BOOLEAN :
        LET r == LaunchSettled(St, c, ok)
        IN /\ r.returns \in BOOLEAN
           /\ r.returns = ok
           /\ r.state.sb[c].pc = "idle"
           /\ r.returns =>
                 /\ r.state.browserInstance = r.state.launched
                 /\ r.state.browserInstance \notin alive
                 /\ r.state.browserInstance \in r.state.alive
                 /\ r.state.browserLastRestart = now
           /\ ~r.returns => r.state.browserInstance = 0

\* C26 witness: the dispatcher's startBrowser() is launching while another call
\* has already set the handle.
C26_Witness ==
  /\ sb["queue"].pc = "launching"
  /\ browserInstance # 0
  /\ browserInstance \in alive

\* C27 (the decision): checkBrowserHealth calls startBrowser() without a probe when the handle is
\* null or the browser is older than BROWSER_MAX_LIFETIME; otherwise it probes the
\* handle and calls startBrowser() when, and only when, the probe threw (a
\* browser the probe found dead is being closed by that call); a probe that
\* succeeds ends the check with handle, restart time and browsers as they were.
C27_Decision ==
  /\ (hc.pc = "idle" /\ healthAt <= now) =>
        LET s == CheckBrowserHealthRun(St)
        IN IF browserInstance = 0 \/ now - browserLastRestart > BROWSER_MAX_LIFETIME
           THEN /\ s.hc.pc = "restart"
                /\ s.hc.handle = 0
                /\ s.sb["health"].pc # "idle"
           ELSE /\ s.hc.pc = "probe"
                /\ s.hc.handle = browserInstance
                /\ s.sb["health"].pc = "idle"
                /\ s.browserInstance = browserInstance
  /\ hc.pc \in {"probe", "probeClose"} =>
        (sb["health"].pc = "idle" /\ browserInstance = hc.handle)
  /\ hc.pc = "restart" => sb["health"].pc # "idle"
  /\ (hc.pc = "restart" /\ hc.handle # 0) => hc.handle \notin alive
  /\ \A b \in 1..launched :
       (b \notin alive /\ b \notin closedByStart) =>
          (hc.pc = "restart" /\ hc.handle = b /\ sb["health"].pc = "closing")
\* C27, in full: the decision above in every state, and a probe that succeeds
\* changes neither the handle, nor the restart time, nor the browsers.
C27_HealthDecision ==
  /\ []C27_Decision
  /\ [][(hc.pc = "probeClose" /\ hc'.pc = "idle") =>
          /\ browserInstance' = browserInstance
          /\ browserLastRestart' = browserLastRestart
          /\ alive' = alive
          /\ launched' = launched
          /\ sb' = sb]_vars

\* C27 witness: a live browser older than BROWSER_MAX_LIFETIME is being restarted
\* without a probe.
C27_Witness ==
  /\ now - browserLastRestart > BROWSER_MAX_LIFETIME
  /\ browserInstance \in alive
  /\ hc.pc = "restart"
  /\ hc.handle = 0
  /\ sb["health"].pc = "closing"

\* C28: every activePages++ of an admission is matched by one activePages-- when
\* that processQueue call ends, on every path: activePages counts the tasks
\* admitted and not yet finished, and is 0 whenever no task is being processed.
C28_SlotReleased ==
  /\ activePages =
       Len(admitted) - Cardinality({t \in DOMAIN submitted : submitted[t] = Gone})
  /\ pq.pc = "idle" => activePages = 0
  /\ pq.pc # "idle" => activePages = 1

\* C28 witness: the second task has just resolved and no slot is held.
C28_Witness ==
  /\ lastOp.op = "settled"
  /\ lastOp.how = "resolve"
  /\ lastOp.task = 2
  /\ Len(admitted) = 2
  /\ activePages = 0

\* C29: a task is dequeued once and its execute is invoked at most once: no task
\* occurs twice among the admitted or in the queue, an admitted task is not in the
\* queue, and a finished task is not the one being processed.
C29_ConsumedOnce ==
  /\ \A i, j \in DOMAIN admitted : admitted[i] = admitted[j] => i = j
  /\ \A i, j \in DOMAIN requestQueue : requestQueue[i] = requestQueue[j] => i = j
  /\ \A i \in DOMAIN requestQueue : ~Admitted(requestQueue[i])
  /\ pq.execs <= 1
  /\ lastOp.op = "settled" => lastOp.execs <= 1
  /\ \A t \in DOMAIN submitted :
       submitted[t] = Gone => (Admitted(t) /\ pq.task # t /\ settles[t] = 1)

\* C29 witness: the second task was rejected because the browser was closed under
\* it; it is not back in the queue.
C29_Witness ==
  /\ lastOp.op = "settled"
  /\ lastOp.err = ErrClosed
  /\ lastOp.execs = 1
  /\ Len(admitted) = 2
  /\ requestQueue = <<>>

\* C30: at most one processQueue call is between setting and clearing the guard:
\* isProcessing is set exactly while a call is past the guard, and a dispatcher
\* callback that runs meanwhile returns at the guard, however many are pending.
C30_OneDispatcher ==
  /\ activePages <= 1
  /\ isProcessing <=> pq.pc # "idle"
  /\ isProcessing =>
        /\ CannotAdmit(St)
        /\ ProcessQueueRun(St).pq = pq
        /\ ProcessQueueRun(St).requestQueue = requestQueue
        /\ ProcessQueueRun(St).activePages = activePages

\* C30 witness: a task is scraping, another waits, and two dispatcher callbacks
\* are pending.
C30_Witness ==
  /\ isProcessing
  /\ pq.pc = "scraping"
  /\ requestQueue # <<>>
  /\ immediates >= 2

\* C31: when execute calls newContext, it calls it on the value browserInstance has
\* in that same step, and that value is a handle (not null); the context, once
\* created, is a context of that handle.
C31_ContextOnHandleRead ==
  /\ [](pq.pc = "newContext" => (pq.handle # 0 /\ pq.handle <= launched))
  /\ [][(pq.pc # "newContext" /\ pq'.pc = "newContext") =>
          (pq'.handle = browserInstance' /\ browserInstance' # 0)]_vars
  /\ [][(pq.pc = "newContext" /\ pq'.pc = "newPage") => pq'.context = pq.handle]_vars

\* C31 witness: the task was admitted with no browser, awaited its own
\* startBrowser() and calls newContext while startServer's launch is outstanding.
C31_Witness ==
  /\ pq.pc = "newContext"
  /\ pq.handle = browserInstance
  /\ sb["server"].pc = "launching"
  /\ sb["queue"].pc = "idle"

\* the three conditions of a submitted task
IsQueued(t) == \E i \in DOMAIN requestQueue : requestQueue[i] = t
IsExecuting(t) == pq.task = t /\ settles[t] = 0
IsSettled(t) == settles[t] >= 1

\* C32: every submitted task is in exactly one of the conditions queued, executing
\* and settled; a submission only appends to requestQueue, whatever the dispatcher
\* is doing; a task leaves the queue only from its head, by being admitted; and
\* no task is settled while it is queued.
C32_Backpressure ==
  /\ [](\A t \in 1..Len(submitted) :
          /\ IsQueued(t) \/ IsExecuting(t) \/ IsSettled(t)
          /\ ~(IsQueued(t) /\ IsExecuting(t))
          /\ ~(IsQueued(t) /\ IsSettled(t))
          /\ ~(IsExecuting(t) /\ IsSettled(t)))
  /\ [][Len(submitted') # Len(submitted) =>
          /\ Len(submitted') = Len(submitted) + 1
          /\ requestQueue' = Append(requestQueue, Len(submitted'))
          /\ settles' = settles]_vars
  /\ [][(Len(submitted') = Len(submitted) /\ requestQueue' # requestQueue) =>
          /\ requestQueue # <<>>
          /\ requestQueue' = Tail(requestQueue)
          /\ admitted' = Append(admitted, Head(requestQueue))
          /\ settles[Head(requestQueue)] = 0]_vars

\* C32 witness: the second task was submitted while the first is being scraped; it
\* waits in the queue after every pending dispatcher callback has returned.
C32_Witness ==
  /\ isProcessing
  /\ pq.task = 1
  /\ pq.pc = "scraping"
  /\ requestQueue = <<2>>
  /\ settles[2] = 0
  /\ immediates = 0

C34_SettledAfterClose ==
  [][(\E t \in Tasks : settles'[t] # settles[t]) =>
       /\ pq.pc \in {"idle", "ensureBrowser", "newContext", "closeContext"}
       /\ ~pq.page
       /\ pq.context # 0 => pq.pc = "closeContext"
       /\ ~pq'.page
       /\ pq'.context = 0]_vars

\* C34 witness: the first task scraped its page, wrote the cache, and has been
\* resolved with page and context closed.
C34_Witness ==
  /\ lastOp.op = "settled"
  /\ lastOp.how = "resolve"
  /\ lastOp.task = 1
  /\ lastOp.wrote
  /\ ~lastOp.page
  /\ lastOp.context = 0

\* C35: when execute throws a value without a message property, the task is
\* rejected once, and in the same step the slot is released, the guard cleared and
\* a dispatcher callback scheduled, with no browser restart; every task whose
\* processQueue call has ended was settled exactly once.
C35_MessagelessThrow ==
  /\ (lastOp.op = "settled" /\ lastOp.err = NoMessage) =>
        /\ lastOp.how = "reject"
        /\ settles[lastOp.task] = 1
        /\ activePages = 0
        /\ ~isProcessing
        /\ immediates > 0
        /\ pq = PqIdle
        /\ sb["queue"].pc = "idle"
  /\ \A t \in Tasks : (Admitted(t) /\ pq.task # t) => settles[t] = 1

\* C35 witness: the first task's execute threw a value without a message while the
\* second task waits in the queue.
C35_Witness ==
  /\ lastOp.op = "settled"
  /\ lastOp.err = NoMessage
  /\ lastOp.task = 1
  /\ requestQueue = <<2>>
  /\ immediates > 0

\* C36: with launches succeeding and a health check in every time unit, a task
\* calls newContext only while the current browser's age is at most
\* BROWSER_MAX_LIFETIME + BROWSER_RESTART_INTERVAL, no time passes before the call
\* settles, and browserLastRestart is set to the current time in the step that
\* assigns a handle and is unchanged for as long as that handle stays.
C36_LifetimeEnforced ==
  /\ [][(pq.pc # "newContext" /\ pq'.pc = "newContext") =>
          /\ pq'.handle = browserInstance'
          /\ now' - browserLastRestart' <=
               BROWSER_MAX_LIFETIME + BROWSER_RESTART_INTERVAL]_vars
  /\ [][pq.pc = "newContext" => now' = now]_vars
  /\ [][(browserInstance' # browserInstance /\ browserInstance' # 0) =>
          browserLastRestart' = now']_vars
  /\ [][(browserInstance' = browserInstance /\ browserInstance # 0) =>
          browserLastRestart' = browserLastRestart]_vars
  /\ [](browserInstance # 0 => browserLastRestart <= now)

\* C36 witness: a task calls newContext on a browser of age exactly
\* BROWSER_MAX_LIFETIME + BROWSER_RESTART_INTERVAL, before the health check of that
\* time unit has run.
C36_Witness ==
  /\ pq.pc = "newContext"
  /\ pq.handle = browserInstance
  /\ now - browserLastRestart = BROWSER_MAX_LIFETIME + BROWSER_RESTART_INTERVAL
  /\ hc.pc = "idle"
  /\ healthAt = now

\* C37: every entry of the cache is under the key of a valid identifier and is a
\* result for the kind and the identifier of its key; the key strings of distinct
\* (kind, identifier) pairs differ; and what a request of a kind for an identifier
\* is served from the cache is a result of that kind for that identifier.
C37_CacheKeyed ==
  /\ \A k \in Keys :
       cache[k] # NoEntry =>
         /\ ValidId(k[2])
         /\ cache[k].result.kind = k[1]
         /\ cache[k].result.id = k[2]
  /\ \A k1, k2 \in Keys :
       KeyString(k1[1], k1[2]) = KeyString(k2[1], k2[2]) => k1 = k2
  /\ \A kind \in Kinds, id \in IdPool :
       CacheHas(St, kind, id) =>
         (Served(St, kind, id).kind = kind /\ Served(St, kind, id).id = id)

\* C37 witness: the same identifier is cached as an artist and as a track, with
\* different values.
C37_Witness ==
  /\ cache[Key("artist", "valid")] # NoEntry
  /\ cache[Key("track", "valid")] # NoEntry
  /\ cache[Key("artist", "valid")].result.value = <<"1", "2">>
  /\ cache[Key("track", "valid")].result.value = <<"3", "4">>

\* C38: a step of checkBrowserHealth, or of the startBrowser() it calls, leaves the
\* queue, the slot count, the guard, the cache and its timers, the pending
\* dispatcher callbacks and the call in progress as they were; while the probe's
\* context is open activePages still counts only the admitted, unfinished tasks.
C38_HealthFrame ==
  /\ [][(hc' # hc \/ sb'["health"] # sb["health"]) =>
          /\ requestQueue' = requestQueue
          /\ activePages' = activePages
          /\ isProcessing' = isProcessing
          /\ cache' = cache
          /\ timers' = timers
          /\ immediates' = immediates
          /\ pq' = pq
          /\ submitted' = submitted
          /\ settles' = settles]_vars
  /\ [](hc.pc \in {"probe", "probeClose"} =>
          activePages = (IF pq.pc = "idle" THEN 0 ELSE 1))

\* C38 witness: the probe failed and the health check is restarting the browser
\* while a task holds the slot and another waits.
C38_Witness ==
  /\ hc.pc = "restart"
  /\ hc.handle # 0
  /\ activePages = 1
  /\ isProcessing
  /\ requestQueue # <<>>

\* C16 witness: the task was rejected for want of a browser while another waits.
C16_Witness ==
  /\ lastOp.op = "settled"
  /\ lastOp.err = ErrNoBrowser
  /\ lastOp.execs = 0
  /\ browserInstance = 0
  /\ requestQueue # <<>>
====
